---- MODULE Spec2Model ----
(***************************************************************************)
(* ccrag: local retrieval-augmented generation over text files.            *)
(*                                                                         *)
(* src/main.go is the program.  src/unnamed/part_000 holds two other       *)
(* revisions of the same file; the first of them (lines 1-451) differs     *)
(* from main.go in cosineSimilarity, in embed's status check, in the       *)
(* chunker (tokens instead of words) and in embedPath's empty-response     *)
(* check.  The variable `build` says which revision runs: "words" is       *)
(* main.go, "tokens" is part_000 lines 1-451.                              *)
(*                                                                         *)
(* SpecIngest models `ccrag -e` (main.go 218-256), SpecQuery models        *)
(* `ccrag -q` (main.go 258-377), SpecChunk models one call of              *)
(* readFileInChunks (main.go 108-144, part_000 180-207).                   *)
(***************************************************************************)
EXTENDS Integers, Sequences, FiniteSets, Bags, TLC

VARIABLES
    build,      \* which revision of the source runs
    rest,       \* ingest: the paths of stdin the range loop has not reached yet
    pcMain,     \* ingest: position of main: "dispatch" | "exited"
    limiter,    \* ingest: number of values buffered in the limiter channel
    gs,         \* ingest: the live goroutines, a bag of [path, pc, embs, lost]
    store,      \* ingest: embedDir, record file name -> record or NoFile
    crashed,    \* ingest: a goroutine panicked, the process is gone
    maxResults,     \* query: CCRAG_MAX_RESULTS (main.go 58)
    similarityOnly, \* query: the -s flag (main.go 191)
    embedFiles,     \* query: how many record files the Glob found (main.go 269)
    qpc,            \* query: position of main in the query branch
    embUserQuery,   \* query: the query's vector, embUserQuery.Embeddings[0]
    scanned,        \* query: what the scan loop met, one entry per record file
    scores,         \* query: the ScoredResults (main.go 274)
    selectedScores, \* query: the selection (main.go 318)
    sourcesRead,    \* query: how many sources the context loop has read
    context,        \* query: the paths whose text is in context (main.go 332)
    generateSent,   \* query: the request to /api/generate was sent
    printed,        \* query: the lines written to stdout by the query
    outcome,        \* query: "running", "ok", "fatal:..." or "panic:..."
    cText,      \* chunker: the words of the file readFileInChunks is given
    cSize,      \* chunker: the chunkSize parameter of readFileInChunks
    cpc,        \* chunker: "open" | "loop" | "done" | "error" | "panic"
    cTokens,    \* chunker: tokens (part_000 187)
    cI,         \* chunker: the loop variable i (part_000 193)
    cChunks     \* chunker: chunks, the list being returned

ingestVars == <<rest, pcMain, limiter, gs, store, crashed>>

queryVars == <<maxResults, similarityOnly, embedFiles, qpc, embUserQuery, scanned,
               scores, selectedScores, sourcesRead, context, generateSent, printed, outcome>>

chunkVars == <<cText, cSize, cpc, cTokens, cI, cChunks>>

vars == <<build, ingestVars, queryVars, chunkVars>>

----------------------------------------------------------------------------
(* Bounds of the model. *)

\* longest list of paths on stdin
MaxPaths == 5
\* CCRAG_WORDS_PER_CHUNK as configured in the model's runs
chunkSize == 2

(* Program constants. *)

\* main.go 233: maxWorkers := 4
maxWorkers == 4

Builds == {"words", "tokens"}

----------------------------------------------------------------------------
(* Documents.  A path is <<directory, base name>>; the text of a document  *)
(* is a sequence of words.                                                 *)

Paths == {<<1, 1>>, <<1, 2>>}

\* the text found at each path: three words, an empty file
Content(p) == IF p = <<1, 1>> THEN <<1, 2, 3>> ELSE << >>

\* main.go 240: cc.FileName(p), the base name of the path without directory
FileName(p) == p[2]

\* main.go 241-242: the record file of a path inside embedDir
embedFilePath(p) == FileName(p)

FileNames == {embedFilePath(p) : p \in Paths}

NoFile == [source |-> <<0, 0>>, n |-> -1, chunk_size |-> 0]

RECURSIVE SeqsUpTo(_, _)
SeqsUpTo(S, n) ==
    IF n = 0 THEN {<< >>}
    ELSE LET shorter == SeqsUpTo(S, n - 1)
         IN  shorter \cup {Append(s, x) : s \in {t \in shorter : Len(t) = n - 1}, x \in S}

Min(a, b) == IF a < b THEN a ELSE b

----------------------------------------------------------------------------
(* The chunkers. *)

\* the chunker without main.go 134-137: the remaining words are not added
RECURSIVE wordChunksDropTail(_, _, _, _)
wordChunksDropTail(words, size, current, chunks) ==
    IF words = << >>
    THEN chunks
    ELSE LET cur == Append(current, Head(words))
         IN  IF Len(cur) = size
             THEN wordChunksDropTail(Tail(words), size, << >>, Append(chunks, cur))
             ELSE wordChunksDropTail(Tail(words), size, cur, chunks)

\* main.go 108-144: bufio.ScanWords, a chunk is closed when wordCount reaches
\* chunkSize, the remaining words make the last chunk.  A chunk is the
\* sequence of its words (the code joins them with a trailing blank).
RECURSIVE wordChunks(_, _, _, _)
wordChunks(words, size, current, chunks) ==
    IF words = << >>
    THEN IF Len(current) > 0 THEN Append(chunks, current) ELSE chunks
    ELSE LET cur == Append(current, Head(words))
         IN  IF Len(cur) = size
             THEN wordChunks(Tail(words), size, << >>, Append(chunks, cur))
             ELSE wordChunks(Tail(words), size, cur, chunks)

\* part_000 115-147: the tokenizer service; here every word is two tokens
RECURSIVE tokenize(_)
tokenize(words) ==
    IF words = << >> THEN << >>
    ELSE <<2 * Head(words) - 1, 2 * Head(words)>> \o tokenize(Tail(words))

\* part_000 192-204: for i := 0; i < len(tokens); i += chunkSize
RECURSIVE tokenChunks(_, _, _)
tokenChunks(tokens, size, i) ==
    IF i >= Len(tokens) THEN << >>
    ELSE LET end == Min(i + size, Len(tokens))
         IN  <<SubSeq(tokens, i + 1, end)>> \o tokenChunks(tokens, size, i + size)

\* readFileInChunks of the running revision, for a readable file
readFileInChunks(p, size) ==
    IF build = "words"
    THEN wordChunks(Content(p), size, << >>, << >>)
    ELSE tokenChunks(tokenize(Content(p)), size, 0)

----------------------------------------------------------------------------
(* Ingest mode: main.go 218-256.                                           *)
(*                                                                         *)
(* The goroutines are anonymous, so the live ones are kept as a bag; a     *)
(* goroutine that returned is no longer in it.  The range loop is kept as  *)
(* the part of the list it has still to visit.  Go 1.22 loop variables:    *)
(* each goroutine captures the p of its own iteration.                     *)

\* a goroutine that has just been started for path p (main.go 239)
Started(p) == [path |-> p, pc |-> "read", embs |-> 0, lost |-> FALSE]

At(g, pc) == [g EXCEPT !.pc = pc]

\* the process is running: no goroutine panicked and main has not returned
Alive == ~crashed /\ pcMain = "dispatch"

\* the goroutines inside embedPath (main.go 248)
Working == {g \in BagToSet(gs) : g.pc \in {"read", "stat", "embed", "write"}}

\* how many goroutines are inside embedPath
NumWorking == BagCardinality([g \in Working |-> gs[g]])

Step(g, h) == gs' = (gs (-) SetToBag({g})) (+) SetToBag({h})

Return(g) == gs' = gs (-) SetToBag({g})

\* a record an earlier run left in embedDir: one vector for every chunk
Complete(p) ==
    [source |-> p, n |-> Len(readFileInChunks(p, chunkSize)), chunk_size |-> chunkSize]

\* main.go 237: `limiter <- true` can proceed when the buffer has room
CanSendUnbounded == TRUE
CanSend == limiter < maxWorkers

\* no call of readFileInChunks is followed on its own
ChunkOff ==
    /\ cText = << >>
    /\ cSize = 0
    /\ cpc = "off"
    /\ cTokens = << >>
    /\ cI = 0
    /\ cChunks = << >>

\* the query branch is not taken in ingest mode
QueryOff ==
    /\ maxResults = 0
    /\ similarityOnly = FALSE
    /\ embedFiles = 0
    /\ qpc = "off"
    /\ embUserQuery = << >>
    /\ scanned = << >>
    /\ scores = << >>
    /\ selectedScores = << >>
    /\ sourcesRead = 0
    /\ context = << >>
    /\ generateSent = FALSE
    /\ printed = << >>
    /\ outcome = "off"

IngestInit ==
    /\ build \in Builds
    /\ rest \in SeqsUpTo(Paths, MaxPaths)
    /\ pcMain = "dispatch"
    /\ limiter = 0
    /\ gs = EmptyBag
    /\ store \in {st \in [FileNames -> {NoFile} \cup {Complete(p) : p \in Paths}] :
                     \A f \in FileNames : st[f] # NoFile => embedFilePath(st[f].source) = f}
    /\ crashed = FALSE
    /\ QueryOff
    /\ ChunkOff

\* main.go 236-239: one iteration of the range loop: send to limiter, start
\* the goroutine for the next path
Dispatch ==
    /\ Alive
    /\ rest # << >>
    /\ CanSend
    /\ limiter' = limiter + 1
    /\ gs' = gs (+) SetToBag({Started(Head(rest))})
    /\ rest' = Tail(rest)
    /\ UNCHANGED <<build, chunkVars, pcMain, store, crashed, queryVars>>

\* main.go 256-258, 383: the loop is over and main returns; the process ends
\* whatever the goroutines are doing
MainExit ==
    /\ Alive
    /\ rest = << >>
    /\ pcMain' = "exited"
    /\ UNCHANGED <<build, chunkVars, rest, limiter, gs, store, crashed, queryVars>>

\* main.go 147-150 (part_000 210-213): readFileInChunks fails, embedPath
\* returns the error, the goroutine prints it and returns (main.go 249-252)
\* before its defer statement (main.go 254) is reached: nothing is received
\* from limiter
ReadFails(g) ==
    /\ Alive
    /\ g.pc = "read"
    /\ Return(g)
    /\ UNCHANGED <<build, chunkVars, rest, pcMain, limiter, store, crashed, queryVars>>

\* main.go 147 (part_000 210): readFileInChunks succeeds; the chunks are a
\* function of the path, they are computed again where they are used
ReadChunks(g) ==
    /\ Alive
    /\ g.pc = "read"
    /\ Step(g, At(g, "stat"))
    /\ UNCHANGED <<build, chunkVars, rest, pcMain, limiter, store, crashed, queryVars>>

\* main.go 152: os.Stat(out) finds the record file
StatSkip(g) == store[embedFilePath(g.path)] # NoFile

\* main.go 152-156: os.Stat(out); embedPath returns nil when the record file
\* exists and goes on to embed otherwise
Stat(g) ==
    /\ Alive
    /\ g.pc = "stat"
    /\ Step(g, At(g, IF StatSkip(g) THEN "release" ELSE "embed"))
    /\ UNCHANGED <<build, chunkVars, rest, pcMain, limiter, store, crashed, queryVars>>

Outcomes == {"ok", "err", "empty"}

\* main.go 167: res.Embeddings[0] of a response without vectors panics;
\* part_000 229-232 checks the length first
IndexPanics(outs) == build = "words" /\ \E c \in DOMAIN outs : outs[c] = "empty"

\* main.go 158-168 (part_000 221-235): the loop over the chunks.  Each call
\* of embed returns a vector ("ok"), an error ("err": transport, decoding,
\* in part_000 also a status other than 200) or a response without vectors
\* ("empty").  A failed chunk is skipped with `continue`.
EmbedChunks(g) ==
    /\ Alive
    /\ g.pc = "embed"
    /\ \E outs \in [1..Len(readFileInChunks(g.path, chunkSize)) -> Outcomes] :
         IF IndexPanics(outs)
         THEN /\ crashed' = TRUE
              /\ UNCHANGED gs
         ELSE /\ Step(g, [g EXCEPT !.pc = "write",
                                   !.embs = Cardinality({c \in DOMAIN outs : outs[c] = "ok"}),
                                   !.lost = \E c \in DOMAIN outs : outs[c] # "ok"])
              /\ UNCHANGED crashed
    /\ UNCHANGED <<build, chunkVars, rest, pcMain, limiter, store, queryVars>>

\* main.go 170-174: the record embedPath marshals
Record(g) == [source |-> g.path, n |-> g.embs, chunk_size |-> chunkSize]

\* main.go 181-185: os.WriteFile succeeds
WriteFile(g) ==
    /\ Alive
    /\ g.pc = "write"
    /\ store' = [store EXCEPT ![embedFilePath(g.path)] = Record(g)]
    /\ Step(g, At(g, "release"))
    /\ UNCHANGED <<build, chunkVars, rest, pcMain, limiter, crashed, queryVars>>

\* main.go 181-183, 249-252: os.WriteFile fails, the goroutine returns
\* before its defer statement
WriteFails(g) ==
    /\ Alive
    /\ g.pc = "write"
    /\ Return(g)
    /\ UNCHANGED <<build, chunkVars, rest, pcMain, limiter, store, crashed, queryVars>>

\* main.go 254: embedPath returned nil, the deferred `<-limiter` runs and
\* the goroutine ends
Release(g) ==
    /\ Alive
    /\ g.pc = "release"
    /\ limiter' = limiter - 1
    /\ Return(g)
    /\ UNCHANGED <<build, chunkVars, rest, pcMain, store, crashed, queryVars>>

IngestNext ==
    \/ Dispatch
    \/ MainExit
    \/ \E g \in BagToSet(gs) : ReadFails(g)
    \/ \E g \in BagToSet(gs) : ReadChunks(g)
    \/ \E g \in BagToSet(gs) : Stat(g)
    \/ \E g \in BagToSet(gs) : EmbedChunks(g)
    \/ \E g \in BagToSet(gs) : WriteFile(g)
    \/ \E g \in BagToSet(gs) : WriteFails(g)
    \/ \E g \in BagToSet(gs) : Release(g)

SpecIngest == IngestInit /\ [][IngestNext]_vars

----------------------------------------------------------------------------
(* Numbers.  Scores are kept as exact fractions <<numerator, denominator>>  *)
(* in lowest terms with a positive denominator; the vectors of the model   *)
(* have whole-number lengths and are not zero, so that the quotient of     *)
(* cosineSimilarity is exact and never 0/0.                                *)

Abs(x) == IF x < 0 THEN -x ELSE x

RECURSIVE GCD(_, _)
GCD(a, b) == IF b = 0 THEN a ELSE GCD(b, a % b)

Rat(n, d) ==
    LET g == GCD(Abs(n), Abs(d))
        sgn == IF d < 0 THEN -1 ELSE 1
    IN  <<sgn * (n \div g), sgn * (d \div g)>>

Zero == <<0, 1>>

RAdd(x, y) == Rat(x[1] * y[2] + y[1] * x[2], x[2] * y[2])

RSub(x, y) == Rat(x[1] * y[2] - y[1] * x[2], x[2] * y[2])

RScale(k, x) == Rat(k * x[1], x[2])

RDivInt(x, k) == Rat(x[1], x[2] * k)

RLess(x, y) == x[1] * y[2] < y[1] * x[2]

\* Go's conversion of a float64 to int: the fraction is dropped, towards zero
TruncToInt(x) == IF x[1] >= 0 THEN x[1] \div x[2] ELSE -((-x[1]) \div x[2])

\* math.Sqrt of a perfect square
Sqrt(n) == CHOOSE r \in 0..n : r * r = n

RECURSIVE SumSq(_)
SumSq(a) == IF a = << >> THEN 0 ELSE Head(a) * Head(a) + SumSq(Tail(a))

RECURSIVE Dot(_, _)
Dot(a, b) == IF a = << >> THEN 0 ELSE Head(a) * Head(b) + Dot(Tail(a), Tail(b))

----------------------------------------------------------------------------
(* Query mode: main.go 258-377. *)

\* longest list of record files in embedDir
MaxFiles == 3
\* largest CCRAG_MAX_RESULTS of the model's runs
MaxK == 3

\* vectors the embedding service returns for the query
QueryVecs == {<<1, 0>>, <<0, 1>>}

\* what os.ReadFile and json.Unmarshal make of a record file: it cannot be
\* read, it does not parse, or it is a record with these chunk vectors
Unreadable == [parses |-> FALSE, readable |-> FALSE, embeddings |-> << >>]
Corrupt == [parses |-> FALSE, readable |-> TRUE, embeddings |-> << >>]
RecordOf(e) == [parses |-> TRUE, readable |-> TRUE, embeddings |-> e]

StoredEmbeddings ==
    { << >>,
      << <<1, 0>> >>, << <<0, 1>> >>, << <<119, 120>> >>, << <<120, 119>> >>,
      << <<1, 0>>, <<0, 1>> >>, << <<119, 120>>, <<120, 119>> >>,
      << <<1>> >>, << <<1, 0>>, <<1>> >> }

FileData == {Unreadable, Corrupt} \cup {RecordOf(e) : e \in StoredEmbeddings}

\* main.go 70 (part_000 70): the two vectors differ in length
DifferentLengths(a, b) == Len(a) # Len(b)

\* main.go 69-81: panics on different lengths ("words"); part_000 69-81
\* returns 0 on different lengths ("tokens")
cosineSimilarity(a, b) ==
    IF DifferentLengths(a, b)
    THEN IF build = "words" THEN "panic" ELSE Zero
    ELSE Rat(Dot(a, b), Sqrt(SumSq(a)) * Sqrt(SumSq(b)))

\* main.go 292-295: score += cosineSimilarity(query, emb) over the chunks
RECURSIVE SumSimilarity(_, _)
SumSimilarity(q, embs) ==
    IF embs = << >> THEN Zero
    ELSE RAdd(cosineSimilarity(q, Head(embs)), SumSimilarity(q, Tail(embs)))

\* part_000 673: the oldest revision scored a record by its first vector
\* only, cosineSimilarity(query, embNote.Embeddings[0])
AggregateFirstOnly(q, embs) == cosineSimilarity(q, embs[1])

\* main.go 292-296: the score of a record with at least one vector
Aggregate(q, embs) == RDivInt(SumSimilarity(q, embs), Len(embs))

\* main.go 294: some call of cosineSimilarity panics
ScorePanics(q, embs) ==
    \E c \in DOMAIN embs : cosineSimilarity(q, embs[c]) = "panic"

\* main.go 311-315: the comparator, int(100.0*a.Score - 100.0*b.Score)
cmp(a, b) == TruncToInt(RSub(RScale(100, a.Score), RScale(100, b.Score)))

Swap(data, i, j) == [data EXCEPT ![i] = data[j], ![j] = data[i]]

\* slices.SortFunc on at most 12 elements is insertionSortCmpFunc:
\*   for i := a + 1; i < b; i++ {
\*       for j := i; j > a && cmp(data[j], data[j-1]) < 0; j-- { swap(j, j-1) } }
RECURSIVE insertLeft(_, _)
insertLeft(data, j) ==
    IF j > 1 /\ cmp(data[j], data[j - 1]) < 0
    THEN insertLeft(Swap(data, j, j - 1), j - 1)
    ELSE data

RECURSIVE insertionSort(_, _)
insertionSort(data, i) ==
    IF i > Len(data) THEN data ELSE insertionSort(insertLeft(data, i), i + 1)

\* main.go 311: slices.SortFunc(scores, ...)
SortFunc(data) == insertionSort(data, 2)

\* main.go 319-321: for i := len(scores) - 1; i > len(scores)-(maxResults+1); i--
\* with i counted from 0 as in the code; scores[i] with i < 0 panics
RECURSIVE selectLoop(_, _, _, _)
selectLoop(data, k, i, acc) ==
    IF i > Len(data) - (k + 1)
    THEN IF i < 0 THEN "panic"
         ELSE selectLoop(data, k, i - 1, Append(acc, data[i + 1]))
    ELSE acc

Select(data, k) == selectLoop(data, k, Len(data) - 1, << >>)

\* the ingest branch is not taken in query mode
IngestOff ==
    /\ rest = << >>
    /\ pcMain = "off"
    /\ limiter = 0
    /\ gs = EmptyBag
    /\ store = [f \in FileNames |-> NoFile]
    /\ crashed = FALSE

QueryInit ==
    /\ build \in Builds
    /\ maxResults \in 1..MaxK
    /\ similarityOnly \in BOOLEAN
    /\ embedFiles \in 0..MaxFiles
    /\ qpc = "embed"
    /\ embUserQuery = << >>
    /\ scanned = << >>
    /\ scores = << >>
    /\ selectedScores = << >>
    /\ sourcesRead = 0
    /\ context = << >>
    /\ generateSent = FALSE
    /\ printed = << >>
    /\ outcome = "running"
    /\ IngestOff
    /\ ChunkOff

\* the process ends: log.Fatal, os.Exit or a panic
End(how) == qpc' = "end" /\ outcome' = how

\* main.go 259-262: embed(*query) returns an error, log.Fatal
EmbedQueryFails ==
    /\ qpc = "embed"
    /\ End("fatal:embed")
    /\ UNCHANGED <<build, chunkVars, ingestVars, maxResults, similarityOnly, embedFiles, embUserQuery,
                   scanned, scores, selectedScores, sourcesRead, context, generateSent, printed>>

\* main.go 264-267: the response holds no vector: message, os.Exit(1)
EmbedQueryEmpty ==
    /\ qpc = "embed"
    /\ End("fatal:noembedding")
    /\ UNCHANGED <<build, chunkVars, ingestVars, maxResults, similarityOnly, embedFiles, embUserQuery,
                   scanned, scores, selectedScores, sourcesRead, context, generateSent, printed>>

\* main.go 259-272: the query is embedded and the record files are listed
EmbedQuery ==
    /\ qpc = "embed"
    /\ embUserQuery' \in QueryVecs
    /\ qpc' = "scan"
    /\ UNCHANGED <<build, chunkVars, ingestVars, maxResults, similarityOnly, embedFiles,
                   scanned, scores, selectedScores, sourcesRead, context, generateSent, printed, outcome>>

\* main.go 276-308: one iteration of the scan loop over the record files,
\* in Glob's order; the record of the i-th file names source i
ScanFile ==
    /\ qpc = "scan"
    /\ Len(scanned) < embedFiles
    /\ \E data \in FileData :
         /\ scanned' = Append(scanned, data)
         /\ IF ~data.readable
            THEN End("fatal:read") /\ UNCHANGED scores
            ELSE IF ~data.parses
            THEN End("fatal:parse") /\ UNCHANGED scores
            ELSE IF Len(data.embeddings) = 0
            THEN UNCHANGED <<qpc, outcome, scores>>
            ELSE IF ScorePanics(embUserQuery, data.embeddings)
            THEN End("panic:lengths") /\ UNCHANGED scores
            ELSE /\ scores' = Append(scores,
                        [Score |-> Aggregate(embUserQuery, data.embeddings),
                         Path |-> Len(scanned) + 1])
                 /\ UNCHANGED <<qpc, outcome>>
    /\ UNCHANGED <<build, chunkVars, ingestVars, maxResults, similarityOnly, embedFiles, embUserQuery,
                   selectedScores, sourcesRead, context, generateSent, printed>>

\* main.go 311-315: the scan is over, the scores are sorted
Sort ==
    /\ qpc = "scan"
    /\ Len(scanned) = embedFiles
    /\ scores' = SortFunc(scores)
    /\ qpc' = "select"
    /\ UNCHANGED <<build, chunkVars, ingestVars, maxResults, similarityOnly, embedFiles, embUserQuery,
                   scanned, selectedScores, sourcesRead, context, generateSent, printed, outcome>>

\* main.go 317-321: the selection loop
SelectScores ==
    /\ qpc = "select"
    /\ IF Select(scores, maxResults) = "panic"
       THEN End("panic:index") /\ UNCHANGED selectedScores
       ELSE /\ selectedScores' = Select(scores, maxResults)
            /\ qpc' = "selected"
            /\ UNCHANGED outcome
    /\ UNCHANGED <<build, chunkVars, ingestVars, maxResults, similarityOnly, embedFiles, embUserQuery,
                   scanned, scores, sourcesRead, context, generateSent, printed>>

\* main.go 323-329: -s prints the paths and exits with 0
PrintMatches ==
    /\ qpc = "selected"
    /\ similarityOnly
    /\ printed' = [i \in DOMAIN selectedScores |-> selectedScores[i].Path]
    /\ End("ok")
    /\ UNCHANGED <<build, chunkVars, ingestVars, maxResults, similarityOnly, embedFiles, embUserQuery,
                   scanned, scores, selectedScores, sourcesRead, context, generateSent>>

\* the context loop without the exit of main.go 324-329 before it
ReadSourceIgnoringFlag ==
    /\ qpc = "selected"
    /\ sourcesRead < Len(selectedScores)
    /\ sourcesRead' = sourcesRead + 1
    /\ context' = Append(context, selectedScores[sourcesRead + 1].Path)
    /\ UNCHANGED <<build, chunkVars, ingestVars, maxResults, similarityOnly, embedFiles, qpc,
                   embUserQuery, scanned, scores, selectedScores, generateSent, printed,
                   outcome>>

\* main.go 333-343: the next selected source is read into the context
ReadSource ==
    /\ qpc = "selected"
    /\ ~similarityOnly
    /\ sourcesRead < Len(selectedScores)
    /\ sourcesRead' = sourcesRead + 1
    /\ context' = Append(context, selectedScores[sourcesRead + 1].Path)
    /\ UNCHANGED <<build, chunkVars, ingestVars, maxResults, similarityOnly, embedFiles, qpc, embUserQuery,
                   scanned, scores, selectedScores, generateSent, printed, outcome>>

\* main.go 338-341: the source cannot be read, log.Fatal
ReadSourceFails ==
    /\ qpc = "selected"
    /\ ~similarityOnly
    /\ sourcesRead < Len(selectedScores)
    /\ End("fatal:source")
    /\ UNCHANGED <<build, chunkVars, ingestVars, maxResults, similarityOnly, embedFiles, embUserQuery,
                   scanned, scores, selectedScores, sourcesRead, context, generateSent, printed>>

\* main.go 345-377: the prompt is posted to /api/generate; the answer is
\* printed, or the call or its decoding fails and log.Fatal ends the query
Generate ==
    /\ qpc = "selected"
    /\ ~similarityOnly
    /\ sourcesRead = Len(selectedScores)
    /\ generateSent' = TRUE
    /\ \/ printed' = <<"answer">> /\ End("ok")
       \/ UNCHANGED printed /\ End("fatal:generate")
    /\ UNCHANGED <<build, chunkVars, ingestVars, maxResults, similarityOnly, embedFiles, embUserQuery,
                   scanned, scores, selectedScores, sourcesRead, context>>

QueryNext ==
    \/ EmbedQueryFails
    \/ EmbedQueryEmpty
    \/ EmbedQuery
    \/ ScanFile
    \/ Sort
    \/ SelectScores
    \/ PrintMatches
    \/ ReadSource
    \/ ReadSourceFails
    \/ Generate

SpecQuery == QueryInit /\ [][QueryNext]_vars

----------------------------------------------------------------------------
(* One call of readFileInChunks: main.go 108-144 ("words"), part_000       *)
(* 180-207 ("tokens").  The token loop is followed iteration by iteration. *)

\* most words in a document
MaxWords == 3
\* largest chunkSize tried
MaxChunkSize == 3

Words == {1, 2}

\* main.go 59: CCRAG_WORDS_PER_CHUNK is any integer
ChunkSizes == -1 .. MaxChunkSize

ChunkInit ==
    /\ build \in Builds
    /\ cText \in SeqsUpTo(Words, MaxWords)
    /\ cSize \in ChunkSizes
    /\ cpc = "open"
    /\ cTokens = << >>
    /\ cI = 0
    /\ cChunks = << >>
    /\ IngestOff
    /\ QueryOff

\* main.go 109-112, part_000 181-184: the file cannot be read, nil is returned
OpenFails ==
    /\ cpc = "open"
    /\ cpc' = "error"
    /\ UNCHANGED <<build, ingestVars, queryVars, cText, cSize, cTokens, cI, cChunks>>

\* main.go 115-143: the scanner loop and the flush of the remaining words
ChunkWords ==
    /\ cpc = "open"
    /\ build = "words"
    /\ cChunks' = wordChunks(cText, cSize, << >>, << >>)
    /\ cpc' = "done"
    /\ UNCHANGED <<build, ingestVars, queryVars, cText, cSize, cTokens, cI>>

\* main.go 122, 135-141: scanner.Scan() stops before the end of the file
\* (read error, or a word longer than the scanner's buffer); the chunks of
\* the words scanned so far are returned together with the error
ScanFails ==
    /\ cpc = "open"
    /\ build = "words"
    /\ \E n \in 0 .. Len(cText) - 1 :
         cChunks' = wordChunks(SubSeq(cText, 1, n), cSize, << >>, << >>)
    /\ cpc' = "error"
    /\ UNCHANGED <<build, ingestVars, queryVars, cText, cSize, cTokens, cI>>

\* part_000 186-193: the text is tokenized, the loop starts with i := 0
Tokenize ==
    /\ cpc = "open"
    /\ build = "tokens"
    /\ cTokens' = tokenize(cText)
    /\ cI' = 0
    /\ cpc' = "loop"
    /\ UNCHANGED <<build, ingestVars, queryVars, cText, cSize, cChunks>>

\* part_000 188-190: tokenize returns an error
TokenizeFails ==
    /\ cpc = "open"
    /\ build = "tokens"
    /\ cpc' = "error"
    /\ UNCHANGED <<build, ingestVars, queryVars, cText, cSize, cTokens, cI, cChunks>>

\* part_000 194-197: end of the chunk that starts at token i
end(i) == Min(i + cSize, Len(cTokens))

\* part_000 198: tokens[i:end] panics when end < i (slice bounds out of range)
SlicePanics(i) == end(i) < i

\* part_000 193-204: one iteration of the loop.  A run that appends more
\* chunks than there are tokens is followed for one chunk more and no further.
TokenIteration ==
    /\ cpc = "loop"
    /\ cI < Len(cTokens)
    /\ Len(cChunks) <= Len(cTokens)
    /\ IF SlicePanics(cI)
       THEN cpc' = "panic" /\ UNCHANGED <<cI, cChunks>>
       ELSE /\ cChunks' = Append(cChunks, SubSeq(cTokens, cI + 1, end(cI)))
            /\ cI' = cI + cSize
            /\ UNCHANGED cpc
    /\ UNCHANGED <<build, ingestVars, queryVars, cText, cSize, cTokens>>

\* part_000 199-202: detokenize returns an error, nil is returned
DetokenizeFails ==
    /\ cpc = "loop"
    /\ cI < Len(cTokens)
    /\ ~SlicePanics(cI)
    /\ cChunks' = << >>
    /\ cpc' = "error"
    /\ UNCHANGED <<build, ingestVars, queryVars, cText, cSize, cTokens, cI>>

\* part_000 193, 206: i has reached len(tokens), chunks is returned
LoopEnds ==
    /\ cpc = "loop"
    /\ cI >= Len(cTokens)
    /\ cpc' = "done"
    /\ UNCHANGED <<build, ingestVars, queryVars, cText, cSize, cTokens, cI, cChunks>>

ChunkNext ==
    \/ OpenFails
    \/ ChunkWords
    \/ ScanFails
    \/ Tokenize
    \/ TokenizeFails
    \/ TokenIteration
    \/ DetokenizeFails
    \/ LoopEnds

SpecChunk == ChunkInit /\ [][ChunkNext]_vars

----------------------------------------------------------------------------
(* Properties of the query branch. *)

\* the record files the scan has met that parse and hold a vector
Eligible ==
    {i \in DOMAIN scanned :
        /\ scanned[i].parses
        /\ Len(scanned[i].embeddings) > 0}

\* every record file was scanned, and each could be read and parsed and
\* holds vectors of the query's length
CleanCorpus ==
    /\ Len(scanned) = embedFiles
    /\ \A i \in DOMAIN scanned :
         /\ scanned[i].readable
         /\ scanned[i].parses
         /\ \A c \in DOMAIN scanned[i].embeddings :
              ~DifferentLengths(embUserQuery, scanned[i].embeddings[c])

\* the selection loop is behind
AfterSelect == qpc = "selected" \/ (qpc = "end" /\ outcome \notin {"fatal:embed", "fatal:noembedding"})

\* C1: with n eligible records and maxResults k >= 1 the query selects
\* exactly min(k, n) results and does not fail in the selection, also when
\* n < k and when n = 0.
C1_SelectsMinOfKAndN ==
    (AfterSelect /\ CleanCorpus) =>
        /\ outcome # "panic:index"
        /\ Len(selectedScores) = Min(maxResults, Cardinality(Eligible))

\* the selection is in descending order of score, equal scores in ascending
\* order of document identifier
RankedOrder(sel) ==
    \A i, j \in DOMAIN sel :
        i < j => \/ RLess(sel[j].Score, sel[i].Score)
                 \/ (sel[j].Score = sel[i].Score /\ sel[i].Path < sel[j].Path)

\* no scored document outside the selection beats a selected one
TopScores(sel, all) ==
    \A i \in DOMAIN sel : \A j \in DOMAIN all :
        (\A h \in DOMAIN sel : sel[h].Path # all[j].Path) =>
            ~RLess(sel[i].Score, all[j].Score)

\* C2: the selected results are the k highest-scoring documents in
\* descending order of their raw score, equal scores in ascending order of
\* document identifier.
C2_RankedByScoreThenId ==
    qpc = "selected" =>
        /\ RankedOrder(selectedScores)
        /\ TopScores(selectedScores, scores)

\* the scan has met a record with a vector whose length is not the query's
MetDifferentLengths ==
    \E i \in DOMAIN scanned : \E c \in DOMAIN scanned[i].embeddings :
        DifferentLengths(embUserQuery, scanned[i].embeddings[c])

ReportedFailures ==
    {"fatal:embed", "fatal:noembedding", "fatal:read", "fatal:parse",
     "fatal:source", "fatal:generate", "fatal:dimension"}

\* C6: a length mismatch between the query vector and a stored vector ends
\* the query in a reported failure: it is neither scored as 0 nor a panic.
C6_MismatchIsReportedFailure ==
    MetDifferentLengths => outcome \in ReportedFailures

\* C7: a record that fails to parse is skipped and the scan continues: it
\* never ends the query.
C7_CorruptRecordIsSkipped ==
    \A i \in DOMAIN scanned :
        (scanned[i].readable /\ ~scanned[i].parses) => outcome # "fatal:parse"

\* the scan has met a record that parses and holds no vector
MetZeroVectorRecord ==
    \E i \in DOMAIN scanned :
        scanned[i].parses /\ Len(scanned[i].embeddings) = 0

\* the record files that have an entry in scores
ScoredPaths == {scores[j].Path : j \in DOMAIN scores}

\* C11: a query over a store with a zero-vector record completes: that
\* record is skipped and has no scored result, every other valid record is
\* scored, and the selection does not fail.
C11_ZeroVectorRecordSkipped ==
    (AfterSelect /\ CleanCorpus /\ MetZeroVectorRecord) =>
        /\ ScoredPaths = Eligible
        /\ outcome \notin {"panic:index", "panic:lengths"}

\* the sum of the similarities of the query to the first n vectors
RECURSIVE ChunkSum(_, _, _)
ChunkSum(q, embs, n) ==
    IF n = 0 THEN Zero
    ELSE RAdd(ChunkSum(q, embs, n - 1), cosineSimilarity(q, embs[n]))

SelectedPaths == [j \in DOMAIN selectedScores |-> selectedScores[j].Path]

\* C14: with -s the query prints the selected paths in their ranked order
\* and stops: no source is read into the context and no request goes to the
\* generation service; without -s the request is sent only after every
\* selected source was read, in ranked order.
C14_SimilarityOnlyStops ==
    /\ similarityOnly => (sourcesRead = 0 /\ context = << >> /\ ~generateSent)
    /\ (similarityOnly /\ outcome = "ok") => (printed = SelectedPaths /\ qpc = "end")
    /\ generateSent => (~similarityOnly /\ context = SelectedPaths)

\* a -s query has printed two matches and has ended
C14_MatchesPrinted ==
    /\ similarityOnly
    /\ outcome = "ok"
    /\ Len(printed) >= 2

----------------------------------------------------------------------------
(* Properties of the ingest branch. *)

\* C3: a document whose embedPath returns an error never keeps the later
\* paths from being dispatched: the dispatch loop is never blocked on a full
\* limiter with no goroutine left to receive from it.
C3_DispatchNeverStuck ==
    ~(Alive /\ rest # << >> /\ ~CanSend /\ gs = EmptyBag)

\* C4: when the embedding call fails for a chunk of a document, no record
\* is persisted for it: every record of the store holds one vector for
\* every chunk of its source.
C4_FailedEmbeddingPersistsNothing ==
    \A f \in FileNames :
        store[f] # NoFile =>
            store[f].n = Len(readFileInChunks(store[f].source, store[f].chunk_size))

\* C5: a record, once in the store, is never rewritten.
C5_RecordsNeverRewritten ==
    [][\A f \in FileNames : store[f] # NoFile => store'[f] = store[f]]_vars

\* C8: a response without vectors is a recoverable error: no goroutine of
\* the ingest run indexes into the empty list and takes the process down.
C8_EmptyResponseNoCrash == ~crashed

\* the goroutines inside embedPath whose record file is f
Targeting(f) ==
    BagCardinality([g \in {h \in Working : embedFilePath(h.path) = f} |-> gs[g]])

\* C9: no two goroutines that are inside embedPath at the same time have
\* the same record file.
C9_WorkersTargetDistinctFiles ==
    \A f \in FileNames : Targeting(f) <= 1

\* C10: at most maxWorkers documents are inside embedPath at any time.
C10_AtMostMaxWorkers == NumWorking <= maxWorkers

\* the pool is full while a path is still waiting to be dispatched
C10_PoolFull == NumWorking = maxWorkers /\ rest # << >>

\* C15: the ingest process does not end while a dispatched goroutine is
\* still inside embedPath, so at the exit every path has its record or its
\* reported error.
C15_ExitWaitsForWorkers ==
    pcMain = "exited" => Working = {}

----------------------------------------------------------------------------
(* Properties of the chunkers. *)

\* the words of the chunks, one chunk after the other
RECURSIVE Flatten(_)
Flatten(cs) == IF cs = << >> THEN << >> ELSE Head(cs) \o Flatten(Tail(cs))

\* the word chunker has returned without an error
WordsReturned == build = "words" /\ cpc = "done"

\* C13: for every text and every positive chunk size the word chunker
\* returns chunks, in document order, whose words one after the other are
\* exactly the words of the text (the trailing partial chunk included); no
\* chunk has more than chunkSize words, no chunk is empty, and an empty text
\* gives no chunks.
C13_WordChunksReproduceText ==
    (WordsReturned /\ cSize >= 1) =>
        /\ Flatten(cChunks) = cText
        /\ \A c \in DOMAIN cChunks :
             Len(cChunks[c]) >= 1 /\ Len(cChunks[c]) <= cSize
        /\ cText = << >> => cChunks = << >>

\* a text was split into full chunks and a trailing partial chunk
C13_PartialLastChunk ==
    /\ WordsReturned
    /\ cSize >= 1
    /\ Len(cChunks) >= 2
    /\ Len(cChunks[Len(cChunks)]) < cSize

\* C16: chunking terminates with a finite list of chunks for every document
\* and every integer chunkSize, zero and negative included: no iteration of
\* the chunking loop panics, and every iteration that stays in the loop
\* moves i forward towards the end of the document.
C16_ChunkingTerminates ==
    [][cpc = "loop" => (cpc' # "panic" /\ (cpc' = "loop" => cI' > cI))]_vars

\* main.go 218, 258: -e runs the ingest branch, -q the query branch
Init == IngestInit \/ QueryInit \/ ChunkInit

Next == IngestNext \/ QueryNext \/ ChunkNext

Spec == Init /\ [][Next]_vars

====
